---- MODULE Spec2Model ----
(***************************************************************************)
(* Model of the metadata store of FileMetadata: MetadataModel (the record  *)
(* set held in a DataFrame, the per-path cache, the spreadsheet file and   *)
(* the rotating backup directory) behind the AccessSafety gate.            *)
(*                                                                         *)
(* A path is a sequence of one-character strings.  A row of the DataFrame  *)
(* is a record over a subset of Columns: a column that is absent from the  *)
(* record is a NaN cell.  The DataFrame is the sequence of its rows.       *)
(* The call a step makes and what it returned are kept in ret.              *)
(*                                                                         *)
(* The specifications share the variables.  In all but ThreadSpec a public *)
(* call is one atomic step (one caller, the GUI thread):                   *)
(*   Spec         the store under mutation and I/O failure;                *)
(*   GateSpec     AccessSafety under every configured set of prefixes;     *)
(*   SearchSpec   MetadataModel.search_metadata and a fresh SearchModel;   *)
(*   SessionSpec  SearchModel after as many searches as fill its cache;    *)
(*   ReloadSpec   the store saved and constructed again from its file;     *)
(*   CoherenceSpec  the store mutated between searches of SearchModel;     *)
(*   ManagerSpec  MetadataManager, the store the main window constructs;   *)
(*   ThreadSpec   two threads, each in one mutating call, statement by     *)
(*                statement.                                               *)
(* Text is a sequence of characters, so that prefix, containment, case and *)
(* pattern matching are computed as the code computes them.                *)
(***************************************************************************)
EXTENDS Integers, Sequences, FiniteSets, TLC

\* ------------------------------------------------------------------ bounds
MaxOps == 1          \* mutating calls of the store after construction
MaxTicks == 1        \* seconds the wall clock advances after construction
MaxSearches == 1     \* searches SearchModel records in its history

\* ------------------------------------------------------- program constants
max_backups == 10    \* default of cleanup_old_backups(max_backups)

\* ------------------------------------------------------------------- paths
SEP == "/"

W1 == <<"/", "w", "/", "a">>
W2 == <<"/", "w", "/", "b">>
R1 == <<"/", "r", "/", "a">>
StorePaths == {W1, W2, R1}

\* the prefixes main.py hands to set_protected_paths
ProtectedConfig == { <<"/", "r", "/">> }

RECURSIVE SplitFrom(_, _, _)
\* path.split('/') : the components between separators, empty ones included
SplitFrom(path, i, cur) ==
    IF i > Len(path) THEN <<cur>>
    ELSE IF path[i] = SEP THEN <<cur>> \o SplitFrom(path, i + 1, <<>>)
    ELSE SplitFrom(path, i + 1, Append(cur, path[i]))

Split(path) == SplitFrom(path, 1, <<>>)

RECURSIVE Join(_)
\* '/'.join(comps)
Join(comps) ==
    IF comps = <<>> THEN <<>>
    ELSE IF Len(comps) = 1 THEN comps[1]
    ELSE comps[1] \o <<SEP>> \o Join(Tail(comps))

DOT == <<".">>
DOTDOT == <<".", ".">>

RECURSIVE NormComps(_, _, _)
\* the component loop of os.path.normpath
NormComps(comps, new_comps, initial_slashes) ==
    IF comps = <<>> THEN new_comps
    ELSE LET comp == Head(comps)
             rest == Tail(comps)
         IN  IF comp = <<>> \/ comp = DOT
                 THEN NormComps(rest, new_comps, initial_slashes)
             ELSE IF \/ comp # DOTDOT
                     \/ (initial_slashes = 0 /\ new_comps = <<>>)
                     \/ (new_comps # <<>> /\ new_comps[Len(new_comps)] = DOTDOT)
                 THEN NormComps(rest, Append(new_comps, comp), initial_slashes)
             ELSE IF new_comps # <<>>
                 THEN NormComps(rest, SubSeq(new_comps, 1, Len(new_comps) - 1),
                                initial_slashes)
             ELSE NormComps(rest, new_comps, initial_slashes)

StartsWith(s, prefix) ==
    /\ Len(prefix) <= Len(s)
    /\ SubSeq(s, 1, Len(prefix)) = prefix

\* os.path.normpath(path)
normpath(path) ==
    IF path = <<>> THEN DOT
    ELSE LET initial_slashes ==
                 IF ~StartsWith(path, <<SEP>>) THEN 0
                 ELSE IF StartsWith(path, <<SEP, SEP>>)
                         /\ ~StartsWith(path, <<SEP, SEP, SEP>>) THEN 2
                 ELSE 1
             body == Join(NormComps(Split(path), <<>>, initial_slashes))
             res == IF initial_slashes = 2 THEN <<SEP, SEP>> \o body
                    ELSE IF initial_slashes = 1 THEN <<SEP>> \o body
                    ELSE body
         IN  IF res = <<>> THEN DOT ELSE res

\* AccessSafety.set_protected_paths
set_protected_paths(paths) == { normpath(p) : p \in paths }

\* the upper-case letters of the model's texts and their lower-case forms
UpperCase == <<"C", "E", "I", "R", "T", "W">>
LowerCase == <<"c", "e", "i", "r", "t", "w">>

\* str.lower(), character by character
LowerChar(c) ==
    IF \E i \in DOMAIN UpperCase : UpperCase[i] = c
    THEN LowerCase[CHOOSE i \in DOMAIN UpperCase : UpperCase[i] = c]
    ELSE c

lower(s) == [i \in 1..Len(s) |-> LowerChar(s[i])]

\* operation types a caller hands to validate_operation
OpRead == <<"r", "e", "a", "d">>
OpWrite == <<"w", "r", "i", "t", "e">>
OpWriteUpper == <<"W", "R", "I", "T", "E">>
OpDelete == <<"d", "e", "l", "e", "t", "e">>
OperationTypes == {OpRead, OpWrite, OpWriteUpper, OpDelete}

\* spellings of paths a caller hands to the gate
GatePaths ==
    { R1, W1,
      <<"/", "r", "/", "/", "a">>,
      <<"/", "/", "r", "/", "a">>,
      <<"/", "w", "/", ".", ".", "/", "r", "/", "a">>,
      <<"/", "r", "r">>,
      <<"r", "/", "a">>,
      <<"/", "R", "/", "a">> }

\* the lists of prefixes the configuration may hand to set_protected_paths
GateConfigs == SUBSET { <<"/", "r", "/">>, <<"/", "w", "/", ".", "/", "a">> }

\* ----------------------------------------------------------------- records
Columns == {"file_path", "file_size", "date_added", "last_modified", "department"}

\* the columns that hold text
TextColumns == {"file_path", "department"}

\* cell text, a sequence of characters like a path
Blank == <<>>
Electrical == <<"E", "l">>
Civil == <<"C", "i">>

\* what os.path.getsize / os.path.getmtime report for a path
Missing == [exists |-> FALSE, size |-> 0, mtime |-> 0]
Small == [exists |-> TRUE, size |-> 1, mtime |-> 0]

\* the file system as one call of add_files_basic_metadata finds it
StatMaps ==
    { [p \in StorePaths |-> Small],
      [p \in StorePaths |-> IF p = W1 THEN Missing ELSE Small] }

\* the dicts a caller passes to update_metadata
MetadataInputs ==
    { [file_path |-> W1, department |-> Blank],
      [file_path |-> W2, department |-> Electrical] }

Has(r, c) == c \in DOMAIN r

\* metadata_df[metadata_df['file_path'] == file_path]
RowsFor(df, file_path) ==
    SelectSeq(df, LAMBDA r : Has(r, "file_path") /\ r.file_path = file_path)

\* metadata_df[metadata_df['file_path'] != file_path]  (NaN != x is True)
RowsNotFor(df, file_path) ==
    SelectSeq(df, LAMBDA r : ~(Has(r, "file_path") /\ r.file_path = file_path))

\* dict | {key: value}
SetKey(d, key, value) ==
    [c \in DOMAIN d \cup {key} |-> IF c = key THEN value ELSE d[c]]

\* ------------------------------------------------------------------ backups
\* the wall clock reading when the store is constructed
T0 == max_backups

\* datetime.now().strftime("%Y%m%d_%H%M%S"): fixed-width decimal fields, the
\* most significant first (two digits carry the model's clock range); the
\* rest of the file name is the same for every backup
strftime(t) == << (t \div 10) % 10, t % 10 >>

\* the clock reading a backup name stands for
TimeOf(name) == name[1] * 10 + name[2]

RECURSIVE LexLess(_, _)
\* a < b, as sorted() compares two file names
LexLess(a, b) ==
    IF a = <<>> THEN b # <<>>
    ELSE IF b = <<>> THEN FALSE
    ELSE IF Head(a) # Head(b) THEN Head(a) < Head(b)
    ELSE LexLess(Tail(a), Tail(b))

\* sorted(names)[0]
First(names) == CHOOSE n \in names : \A k \in names \ {n} : LexLess(n, k)

\* the directory without one file (os.remove)
Remove(dir, name) == [n \in (DOMAIN dir) \ {name} |-> dir[n]]

RECURSIVE cleanup_old_backups(_)
\* MetadataModel.cleanup_old_backups: while len(backups) > max_backups,
\* os.remove(backups.pop(0))
cleanup_old_backups(dir) ==
    IF Cardinality(DOMAIN dir) > max_backups
        THEN cleanup_old_backups(Remove(dir, First(DOMAIN dir)))
        ELSE dir

\* DataFrame.to_excel(path, index=False): the sheet holds the rows' cells
to_excel(df) == df

\* pd.read_excel(path): the rows of the sheet; a cell that holds the empty
\* string is written as an empty cell and '' is one of the default
\* na_values, so it comes back as NaN
read_excel(sheet) ==
    [i \in DOMAIN sheet |->
        [c \in { k \in DOMAIN sheet[i] :
                    ~(k \in TextColumns /\ sheet[i][k] = Blank) } |->
            sheet[i][c]]]

\* the spreadsheet of an earlier run: one row, saved by update_metadata
PriorSheet ==
    << [file_path |-> W1, department |-> Electrical, last_modified |-> T0 - 1] >>

\* how one to_excel(path) call ends: "ok"; "denied", it raises before the
\* target is opened (file locked, no permission) and the target is as it
\* was; "torn", it raises after the target was opened for writing (disk
\* full) and the target is there with incomplete content
WriteOutcomes == {"ok", "denied", "torn"}

\* the content of a file whose write did not complete
Torn == << [incomplete |-> TRUE] >>

NoFile == [exists |-> FALSE, sheet |-> <<>>]
FileOf(df) == [exists |-> TRUE, sheet |-> to_excel(df)]
TornFile == [exists |-> TRUE, sheet |-> Torn]

\* ------------------------------------------------------------------- state
VARIABLES
    read_only_paths,   \* AccessSafety.read_only_paths
    metadata_df,       \* MetadataModel.metadata_df, the sequence of rows
    metadata_cache,    \* MetadataModel.metadata_cache: path -> record
    excel_file,        \* the spreadsheet at excel_path
    backups,           \* the backup directory: file name -> sheet
    clock,             \* the wall clock, in seconds
    ret,               \* the last call of the store and what it returned
    backups0,          \* the listing of the backup directory at construction
    nmut,              \* mutating calls that passed the safety gate so far
    search_cache,      \* SearchModel.search_cache, in insertion order
    search_history,    \* SearchModel.search_history, most recent first
    delivered,         \* the first frame searchCompleted carried, per params
    threads            \* the calls in progress, one per thread of ThreadSpec

vars == << read_only_paths, metadata_df, metadata_cache, excel_file, backups,
           clock, ret, backups0, nmut, search_cache, search_history,
           delivered, threads >>

\* no call is in progress
NoThreads == <<>>

NoDict == [none |-> TRUE]
EmptyMap == [x \in {} |-> NoDict]

\* a call of the store: the operation, its path argument(s), the value it
\* returned ("Record" when get_metadata returned a dict), the lines it
\* logged, and whether an exception left the call
Call(op, path, paths, value, log) ==
    [op |-> op, path |-> path, paths |-> paths, value |-> value, log |-> log,
     raised |-> FALSE]

\* is_protected_path comparing whole paths instead of prefixes
is_protected_path_exact(path) == normpath(path) \in read_only_paths

\* AccessSafety.is_protected_path
is_protected_path(path) ==
    \E protected \in read_only_paths : StartsWith(normpath(path), protected)

\* MetadataModel.backup_current_metadata, with the DataFrame it snapshots;
\* io is how to_excel(backup_path) ends.  Every exception is logged and
\* swallowed, and it skips cleanup_old_backups.
backup_current_metadata(df, io) ==
    IF ~excel_file.exists THEN backups
    ELSE IF io = "denied" THEN backups
    ELSE IF io = "torn" THEN SetKey(backups, strftime(clock), Torn)
    ELSE cleanup_old_backups(SetKey(backups, strftime(clock), to_excel(df)))

\* logging.error("Error creating metadata backup: ...") of the same call
backup_log(io) ==
    IF excel_file.exists /\ io # "ok" THEN {"Error creating metadata backup"}
    ELSE {}

\* the dict add_files_basic_metadata builds for one file
BasicMetadata(file_path, st, now) ==
    [file_path |-> file_path, file_size |-> st.size, date_added |-> now,
     last_modified |-> st.mtime, department |-> Blank]

RECURSIVE AddLoop_merging(_, _, _, _)
\* the loop of add_files_basic_metadata if it kept what the existing row of a
\* path holds and filled in only the cells that row lacks
AddLoop_merging(df, file_paths, stat, now) ==
    IF file_paths = <<>> THEN [df |-> df, raised |-> FALSE]
    ELSE LET file_path == Head(file_paths)
             old == RowsFor(df, file_path)
             new == BasicMetadata(file_path, stat[file_path], now)
             merged == IF old = <<>> THEN new
                       ELSE [c \in DOMAIN new |->
                                IF Has(old[1], c) THEN old[1][c] ELSE new[c]]
         IN  IF ~stat[file_path].exists THEN [df |-> df, raised |-> TRUE]
             ELSE AddLoop_merging(Append(RowsNotFor(df, file_path), merged),
                                  Tail(file_paths), stat, now)

RECURSIVE AddLoop(_, _, _, _)
\* the for loop of add_files_basic_metadata; os.path.getsize raises on a
\* file that is not there, which leaves the loop
AddLoop(df, file_paths, stat, now) ==
    IF file_paths = <<>> THEN [df |-> df, raised |-> FALSE]
    ELSE LET file_path == Head(file_paths)
         IN  IF ~stat[file_path].exists THEN [df |-> df, raised |-> TRUE]
             ELSE AddLoop(Append(RowsNotFor(df, file_path),
                                 BasicMetadata(file_path, stat[file_path], now)),
                          Tail(file_paths), stat, now)

\* ----------------------------------------------------------------- actions
\* MetadataModel.__init__ / setup_model (and main.initialize_safety): either
\* no spreadsheet exists and create_new_database writes an empty one (the
\* write may fail), or setup_model reads the spreadsheet an earlier run left,
\* next to that run's full backup directory.
Init ==
    /\ read_only_paths = set_protected_paths(ProtectedConfig)
    /\ metadata_cache = EmptyMap
    /\ clock = T0
    /\ nmut = 0
    /\ ret = Call("init", <<>>, <<>>, "None", {})
    /\ \/ /\ metadata_df = <<>>
          /\ excel_file \in {NoFile, FileOf(<<>>)}
          /\ backups = EmptyMap
       \/ /\ metadata_df = read_excel(PriorSheet)
          /\ excel_file = [exists |-> TRUE, sheet |-> PriorSheet]
          /\ backups = [n \in {strftime(t) : t \in 0..(max_backups - 1)} |-> <<>>]
    /\ backups0 = DOMAIN backups
    /\ search_cache = <<>>
    /\ search_history = <<>>
    /\ delivered = {}
    /\ threads = NoThreads

\* time passes
Tick ==
    /\ clock < T0 + MaxTicks
    /\ clock' = clock + 1
    /\ UNCHANGED << read_only_paths, metadata_df, metadata_cache, excel_file,
                    backups, ret, backups0, nmut,
                    search_cache, search_history, delivered, threads >>

\* save_database if it returned True whether or not to_excel raised
save_database_always_true(df, io) ==
    IF io = "ok" THEN [file |-> FileOf(df), value |-> "True", log |-> {}]
    ELSE [file |-> IF io = "torn" THEN TornFile ELSE excel_file,
          value |-> "True", log |-> {"Error saving metadata"}]

\* MetadataModel.save_database: the new spreadsheet, the return value and
\* the line logged
save_database(df, io) ==
    IF io = "ok" THEN [file |-> FileOf(df), value |-> "True", log |-> {}]
    ELSE [file |-> IF io = "torn" THEN TornFile ELSE excel_file,
          value |-> "False", log |-> {"Error saving metadata"}]

\* MetadataModel.add_files_basic_metadata(file_paths)
add_files_basic_metadata(file_paths, stat, backup_io, save_io) ==
    LET loop == AddLoop(metadata_df, file_paths, stat, clock)
        saved == save_database(loop.df, save_io)
    IN  /\ nmut < MaxOps
        /\ backups' = backup_current_metadata(metadata_df, backup_io)
        /\ metadata_df' = loop.df
        /\ excel_file' = IF loop.raised THEN excel_file ELSE saved.file
        /\ ret' = IF loop.raised
                  THEN Call("add", <<>>, file_paths, "False",
                            backup_log(backup_io)
                                \cup {"Error adding basic metadata"})
                  ELSE Call("add", <<>>, file_paths, saved.value,
                            backup_log(backup_io) \cup saved.log)
        /\ nmut' = nmut + 1
        /\ UNCHANGED << read_only_paths, metadata_cache, clock, backups0,
                        search_cache, search_history, delivered, threads >>

\* update_metadata past the safety gate: stamp, replace the row, overwrite
\* the cache entry, back up, save
replace_and_save(file_path, m, backup_io, save_io) ==
    LET metadata == SetKey(m, "last_modified", clock)
        df == Append(RowsNotFor(metadata_df, file_path), metadata)
        saved == save_database(df, save_io)
    IN  /\ nmut < MaxOps
        /\ metadata_df' = df
        /\ metadata_cache' = SetKey(metadata_cache, file_path, metadata)
        /\ backups' = backup_current_metadata(df, backup_io)
        /\ excel_file' = saved.file
        /\ ret' = Call("update", file_path, <<>>, saved.value,
                       backup_log(backup_io) \cup saved.log)
        /\ nmut' = nmut + 1
        /\ UNCHANGED << read_only_paths, clock, backups0,
                        search_cache, search_history, delivered, threads >>

\* update_metadata without its safety gate
update_metadata_ungated(file_path, m, backup_io, save_io) ==
    replace_and_save(file_path, m, backup_io, save_io)

\* MetadataModel.update_metadata(file_path, metadata)
update_metadata(file_path, m, backup_io, save_io) ==
    IF is_protected_path(file_path)
    THEN /\ ret' = Call("update", file_path, <<>>, "False",
                        {"Attempted to update protected file metadata"})
         /\ UNCHANGED << read_only_paths, metadata_df, metadata_cache,
                         excel_file, backups, clock, backups0, nmut,
                         search_cache, search_history, delivered, threads >>
    ELSE replace_and_save(file_path, m, backup_io, save_io)

\* what get_metadata(file_path) returns in a state with this cache and frame
GetResult(cache, df, file_path) ==
    IF file_path \in DOMAIN cache THEN [value |-> "Record", record |-> cache[file_path]]
    ELSE IF RowsFor(df, file_path) = <<>> THEN [value |-> "None", record |-> NoDict]
    ELSE [value |-> "Record", record |-> RowsFor(df, file_path)[1]]

\* get_metadata if, for a path without a row, it built a default record
\* and kept it in the cache
get_metadata_defaulting(file_path) ==
    LET res == GetResult(metadata_cache, metadata_df, file_path)
        default == [file_path |-> file_path, file_size |-> 0]
    IN  /\ metadata_cache' =
               IF file_path \in DOMAIN metadata_cache THEN metadata_cache
               ELSE SetKey(metadata_cache, file_path,
                           IF res.value = "Record" THEN res.record ELSE default)
        /\ ret' = Call("get", file_path, <<>>, "Record", {})
        /\ UNCHANGED << read_only_paths, metadata_df, excel_file, backups,
                        clock, backups0, nmut,
                        search_cache, search_history, delivered, threads >>

\* MetadataModel.get_metadata(file_path)
get_metadata(file_path) ==
    LET res == GetResult(metadata_cache, metadata_df, file_path)
    IN  /\ metadata_cache' =
               IF file_path \notin DOMAIN metadata_cache /\ res.value = "Record"
               THEN SetKey(metadata_cache, file_path, res.record)
               ELSE metadata_cache
        /\ ret' = Call("get", file_path, <<>>, res.value, {})
        /\ UNCHANGED << read_only_paths, metadata_df, excel_file, backups,
                        clock, backups0, nmut,
                        search_cache, search_history, delivered, threads >>

\* MetadataModel.clear_cache()
clear_cache ==
    /\ metadata_cache' = EmptyMap
    /\ ret' = Call("clear_cache", <<>>, <<>>, "None", {})
    /\ UNCHANGED << read_only_paths, metadata_df, excel_file, backups,
                    clock, backups0, nmut,
                    search_cache, search_history, delivered, threads >>

\* ------------------------------------------------------------ the safety gate
\* a call of the gate and what it returned; access is what os.access
\* answered, for safe_read_operation
GateCall(op, path, operation_type, access, value, log) ==
    [op |-> op, path |-> path, operation_type |-> operation_type,
     access |-> access, value |-> value, log |-> log, raised |-> FALSE]

\* str(bool)
BoolStr(b) == IF b THEN "True" ELSE "False"

\* validate_operation refusing every operation on a protected path
validate_operation_any(path, operation_type) ==
    IF is_protected_path(path)
    THEN [value |-> "False",
          log |-> {"Blocked write attempt to protected path"}]
    ELSE [value |-> "True", log |-> {}]

\* AccessSafety.validate_operation(path, operation_type)
validate_operation(path, operation_type) ==
    IF lower(operation_type) = OpWrite /\ is_protected_path(path)
    THEN [value |-> "False",
          log |-> {"Blocked write attempt to protected path"}]
    ELSE [value |-> "True", log |-> {}]

\* the set modify_operations of AccessSafety.is_modification_operation
modify_operations ==
    { OpWrite, OpDelete,
      <<"m", "o", "v", "e">>, <<"r", "e", "n", "a", "m", "e">>,
      <<"c", "r", "e", "a", "t", "e">>, <<"m", "o", "d", "i", "f", "y">>,
      <<"u", "p", "d", "a", "t", "e">>, <<"s", "a", "v", "e">>,
      <<"e", "d", "i", "t">> }

\* AccessSafety.is_modification_operation(operation)
is_modification_operation(operation) == lower(operation) \in modify_operations

\* AccessSafety.safe_read_operation(path): what os.access(path, os.R_OK) says
safe_read_operation(path, access) == BoolStr(access)

\* the record set the gate specification starts with: files indexed before
\* any prefix was protected
GateFrame ==
    << [file_path |-> R1, department |-> Electrical, last_modified |-> T0 - 1],
       [file_path |-> W1, department |-> Civil, last_modified |-> T0 - 1] >>

\* AccessSafety.__init__ next to a store that loaded GateFrame
GateInit ==
    /\ read_only_paths = {}
    /\ metadata_df = read_excel(GateFrame)
    /\ metadata_cache = EmptyMap
    /\ excel_file = [exists |-> TRUE, sheet |-> GateFrame]
    /\ backups = EmptyMap
    /\ clock = T0
    /\ nmut = 0
    /\ backups0 = {}
    /\ search_cache = <<>>
    /\ search_history = <<>>
    /\ delivered = {}
    /\ threads = NoThreads
    /\ ret = Call("init", <<>>, <<>>, "None", {})

GateUnchanged ==
    UNCHANGED << metadata_df, metadata_cache, excel_file, backups, clock,
                 backups0, nmut,
                 search_cache, search_history, delivered, threads >>

SetProtectedCall ==
    \E paths \in GateConfigs :
        /\ read_only_paths' = set_protected_paths(paths)
        /\ ret' = GateCall("set_protected_paths", <<>>, <<>>, FALSE, "None", {})
        /\ GateUnchanged

IsProtectedCall ==
    \E path \in GatePaths :
        /\ ret' = GateCall("is_protected_path", path, <<>>, FALSE,
                           BoolStr(is_protected_path(path)), {})
        /\ UNCHANGED read_only_paths
        /\ GateUnchanged

ValidateCall ==
    \E path \in GatePaths, operation_type \in OperationTypes :
        LET res == validate_operation(path, operation_type)
        IN  /\ ret' = GateCall("validate_operation", path, operation_type,
                               FALSE, res.value, res.log)
            /\ UNCHANGED read_only_paths
            /\ GateUnchanged

SafeReadCall ==
    \E path \in GatePaths, access \in BOOLEAN :
        /\ ret' = GateCall("safe_read_operation", path, <<>>, access,
                           safe_read_operation(path, access), {})
        /\ UNCHANGED read_only_paths
        /\ GateUnchanged

GateGetCall == \E file_path \in GatePaths : get_metadata(file_path)

GateNext ==
    \/ SetProtectedCall
    \/ IsProtectedCall
    \/ ValidateCall
    \/ SafeReadCall
    \/ GateGetCall

GateSpec == GateInit /\ [][GateNext]_vars

\* the batches the file tree hands over
Batches == { <<W1>>, <<W1, W1>>, <<W2, W1>>, <<R1>> }

\* how the two spreadsheet writes of one call end, the backup's and the
\* save's: at most one of them fails
IOOutcomes ==
    { <<"ok", "ok">>, <<"torn", "ok">>, <<"ok", "denied">>, <<"ok", "torn">> }

AddCall ==
    \E file_paths \in Batches, stat \in StatMaps, io \in IOOutcomes :
        add_files_basic_metadata(file_paths, stat, io[1], io[2])

UpdateCall ==
    \E file_path \in StorePaths, m \in MetadataInputs, io \in IOOutcomes :
        update_metadata(file_path, m, io[1], io[2])

GetCall == \E file_path \in StorePaths : get_metadata(file_path)

Next ==
    \/ Tick
    \/ AddCall
    \/ UpdateCall
    \/ GetCall
    \/ clear_cache

Spec == Init /\ [][Next]_vars

\* ------------------------------------------------------------------ search
W3 == <<"/", "w", "/", "c">>
W4 == <<"/", "w", "/", "d">>
W5 == <<"/", "w", "/", "e">>

\* the columns of the frame in the order create_new_database lists them
ColumnOrder ==
    <<"file_path", "file_size", "date_added", "last_modified", "department">>

\* the characters of the model's texts in code point order
CodePoints ==
    <<"(", ")", ".", "/", "A", "C", "E", "I", "R", "T", "W",
      "a", "b", "c", "d", "e", "i", "l", "n", "r", "t", "w">>

\* ord(c)
Ord(c) == CHOOSE i \in DOMAIN CodePoints : CodePoints[i] = c

RECURSIVE StrLess(_, _)
\* a < b for two str values
StrLess(a, b) ==
    IF a = <<>> THEN b # <<>>
    ELSE IF b = <<>> THEN FALSE
    ELSE IF Head(a) # Head(b) THEN Ord(Head(a)) < Ord(Head(b))
    ELSE StrLess(Tail(a), Tail(b))

\* the column has dtype object: every column of a frame without rows, and a
\* text column with at least one cell that is not NaN
IsObject(df, c) ==
    \/ df = <<>>
    \/ c \in TextColumns /\ \E i \in DOMAIN df : Has(df[i], c)

\* str(NaN), what astype(str) makes of an empty cell
NanText == <<"n", "a", "n">>

\* Series.astype(str), one cell
astype_str(r, c) == IF Has(r, c) THEN r[c] ELSE NanText

RECURSIVE ParenDepth(_, _)
\* the groups left open at the end of the pattern, -1 when a closing
\* parenthesis has no opening one
ParenDepth(pat, depth) ==
    IF pat = <<>> THEN depth
    ELSE IF Head(pat) = "(" THEN ParenDepth(Tail(pat), depth + 1)
    ELSE IF Head(pat) # ")" THEN ParenDepth(Tail(pat), depth)
    ELSE IF depth = 0 THEN -1
    ELSE ParenDepth(Tail(pat), depth - 1)

\* re.compile(pat) raises re.error: the parentheses do not balance
re_error(pat) == ParenDepth(pat, 0) # 0

\* the pattern without its group parentheses: a group of literals matches
\* what the literals match
Ungrouped(pat) == SelectSeq(pat, LAMBDA c : c \notin {"(", ")"})

\* the pattern matches s at position i: a literal matches itself, '.' any
\* character
MatchAt(pat, s, i) ==
    /\ i + Len(pat) - 1 <= Len(s)
    /\ \A k \in 1..Len(pat) : pat[k] = "." \/ pat[k] = s[i + k - 1]

\* re.search(pat, s) is not None
re_search(pat, s) == \E i \in 1..(Len(s) + 1) : MatchAt(Ungrouped(pat), s, i)

\* Series.str.contains(pat, case=False, na=False), one cell that is not NaN
str_contains_nocase(pat, cell) == re_search(lower(pat), lower(cell))

\* one item of a criteria dict: the value is a list (values) or a scalar
\* (the one element of values)
Criterion(field, list, values) ==
    [field |-> field, list |-> list, values |-> values]

\* bool(value)
Truthy(t) == IF t.list THEN t.values # <<>> ELSE t.values[1] # <<>>

RECURSIVE SearchLoop(_, _, _)
\* the loop of search_metadata over search_terms.items(); raised is an
\* exception: KeyError for a field that is no column, AttributeError for
\* .str on a column that is not text, re.error for a pattern
SearchLoop(df, result, terms) ==
    IF terms = <<>> THEN [rows |-> result, raised |-> FALSE]
    ELSE LET t == Head(terms)
         IN  IF ~Truthy(t) THEN SearchLoop(df, result, Tail(terms))
             ELSE IF t.field \notin Columns
                 THEN [rows |-> <<>>, raised |-> TRUE]
             ELSE IF t.list
                 THEN SearchLoop(df,
                          SelectSeq(result,
                              LAMBDA r : /\ Has(r, t.field)
                                         /\ t.field \in TextColumns
                                         /\ \E k \in DOMAIN t.values :
                                                t.values[k] = r[t.field]),
                          Tail(terms))
             ELSE IF ~IsObject(df, t.field) \/ re_error(t.values[1])
                 THEN [rows |-> <<>>, raised |-> TRUE]
             ELSE SearchLoop(df,
                      SelectSeq(result,
                          LAMBDA r : /\ Has(r, t.field)
                                     /\ str_contains_nocase(t.values[1],
                                                            r[t.field])),
                      Tail(terms))

\* MetadataModel.search_metadata(search_terms): the rows returned and the
\* line logged; an exception gives an empty DataFrame
search_metadata(search_terms) ==
    LET res == SearchLoop(metadata_df, metadata_df, search_terms)
    IN  IF res.raised THEN [rows |-> <<>>, log |-> {"Error searching metadata"}]
        ELSE [rows |-> res.rows, log |-> {}]

RECURSIVE Unique(_, _)
\* Series.unique(): the values in order of first appearance
Unique(values, seen) ==
    IF values = <<>> THEN <<>>
    ELSE IF Head(values) \in seen THEN Unique(Tail(values), seen)
    ELSE <<Head(values)>> \o Unique(Tail(values), seen \cup {Head(values)})

RECURSIVE Sorted(_)
\* sorted(texts)
Sorted(texts) ==
    IF texts = {} THEN <<>>
    ELSE LET least == CHOOSE x \in texts : \A y \in texts \ {x} : StrLess(x, y)
         IN  <<least>> \o Sorted(texts \ {least})

\* the cells of a column that are not NaN, top to bottom
ColumnValues(df, c) ==
    LET present == SelectSeq(df, LAMBDA r : Has(r, c))
    IN  [i \in 1..Len(present) |-> present[i][c]]

RECURSIVE SortedNumbers(_)
\* sorted(numbers)
SortedNumbers(numbers) ==
    IF numbers = {} THEN <<>>
    ELSE LET least == CHOOSE x \in numbers : \A y \in numbers : x <= y
         IN  <<least>> \o SortedNumbers(numbers \ {least})

\* MetadataModel.get_unique_values(field)
get_unique_values(field) ==
    LET values == ColumnValues(metadata_df, field)
        distinct == { values[i] : i \in 1..Len(values) }
    IN  IF field \notin Columns THEN <<>>
        ELSE IF field \in TextColumns THEN Sorted(distinct)
        ELSE SortedNumbers(distinct)

\* ------------------------------------------------------------ SearchModel
max_history == 50     \* SearchModel.max_history
max_cache == 100      \* cache_results: the size that triggers eviction
cache_keep == 50      \* cache_results: the newest entries eviction keeps

All == <<"A", "l", "l">>
Asc == <<"a", "s", "c">>
Desc == <<"d", "e", "s", "c">>

\* search_params.get('text', '')
ParamText(params) == IF "text" \in DOMAIN params THEN params.text ELSE <<>>

\* the columns select_dtypes(include=['object']) yields, in frame order
ObjectColumns(df) == SelectSeq(ColumnOrder, LAMBDA c : IsObject(df, c))

\* x in s, for two str values
Contains(s, x) ==
    \E i \in 1..(Len(s) + 1) :
        /\ i + Len(x) - 1 <= Len(s)
        /\ SubSeq(s, i, i + Len(x) - 1) = x

\* SearchModel._build_search_query: the rows whose text matches in some
\* object column (an empty cell is the text 'nan' after astype(str));
\* re.error when the text does not compile
build_search_query(params) ==
    LET text_search == lower(ParamText(params))
        columns == ObjectColumns(metadata_df)
    IN  IF text_search = <<>> THEN [rows |-> metadata_df, raised |-> FALSE]
        ELSE IF columns # <<>> /\ re_error(text_search)
            THEN [rows |-> <<>>, raised |-> TRUE]
        ELSE [rows |-> SelectSeq(metadata_df,
                           LAMBDA r : \E k \in DOMAIN columns :
                               re_search(text_search,
                                         lower(astype_str(r, columns[k])))),
              raised |-> FALSE]

\* the test of _apply_filters: value and value != "All"
FilterApplies(t) == Truthy(t) /\ (t.list \/ t.values[1] # All)

RECURSIVE FilterLoop(_, _)
\* the loop of _apply_filters; KeyError for a field that is no column
FilterLoop(rows, filters) ==
    IF filters = <<>> THEN [rows |-> rows, raised |-> FALSE]
    ELSE LET t == Head(filters)
         IN  IF ~FilterApplies(t) THEN FilterLoop(rows, Tail(filters))
             ELSE IF t.field \notin Columns
                 THEN [rows |-> <<>>, raised |-> TRUE]
             ELSE FilterLoop(
                      SelectSeq(rows,
                          LAMBDA r : /\ Has(r, t.field)
                                     /\ t.field \in TextColumns
                                     /\ \E k \in DOMAIN t.values :
                                            t.values[k] = r[t.field]),
                      Tail(filters))

\* SearchModel._apply_filters(df, filters)
apply_filters(rows, filters) ==
    IF filters = <<>> THEN [rows |-> rows, raised |-> FALSE]
    ELSE FilterLoop(rows, filters)

\* a < b for two cells of column c
CellLess(c, a, b) == IF c \in TextColumns THEN StrLess(a, b) ELSE a < b

\* row x may stand before row y in df.sort_values(by, ascending): NaN last,
\* otherwise by the cell
MayPrecede(by, ascending, x, y) ==
    IF ~Has(y, by) THEN TRUE
    ELSE IF ~Has(x, by) THEN FALSE
    ELSE IF ascending THEN ~CellLess(by, y[by], x[by])
    ELSE ~CellLess(by, x[by], y[by])

\* DataFrame.sort_values(by=by, ascending=ascending) with the default
\* kind='quicksort', which is not stable: every order of the rows that is
\* sorted by the cell, rows with equal cells in any order
sort_values(rows, by, ascending) ==
    LET n == Len(rows)
        perms == { f \in [1..n -> 1..n] : \A i, j \in 1..n : i # j => f[i] # f[j] }
    IN  { [i \in 1..n |-> rows[f[i]]] :
            f \in { g \in perms :
                      \A i \in 1..n : \A j \in (i + 1)..n :
                          MayPrecede(by, ascending, rows[g[i]], rows[g[j]]) } }

\* SearchModel._sort_results(df, sort_by, sort_order): the frames it may
\* return
sort_results(rows, params) ==
    LET sort_order == IF "sort_order" \in DOMAIN params THEN params.sort_order
                      ELSE Asc
    IN  IF "sort_by" \in DOMAIN params /\ params.sort_by \in Columns
        THEN sort_values(rows, params.sort_by, lower(sort_order) = Asc)
        ELSE {rows}

\* the steps of execute_search between the cache lookup and the caching:
\* the results it may compute, or an exception (KeyError when the params
\* hold no 'filters')
run_query(params) ==
    LET query == build_search_query(params)
        filtered == IF "filters" \in DOMAIN params
                    THEN apply_filters(query.rows, params.filters)
                    ELSE [rows |-> <<>>, raised |-> TRUE]
    IN  IF query.raised \/ filtered.raised
        THEN [raised |-> TRUE, results |-> {}]
        ELSE [raised |-> FALSE, results |-> sort_results(filtered.rows, params)]

\* the cache lookup if the key were the search text alone
CacheIndex_by_text(cache, key) ==
    { i \in DOMAIN cache : ParamText(cache[i].key) = ParamText(key) }

\* cache_key in self.search_cache
CacheIndex(cache, key) == { i \in DOMAIN cache : cache[i].key = key }

\* cache_results deleting the 50 oldest keys, list(keys)[:50], when the
\* cache exceeds its limit
cache_results_drop_50(cache, key, results) ==
    LET entry == [key |-> key, results |-> results]
        put == IF CacheIndex(cache, key) = {} THEN Append(cache, entry)
               ELSE [i \in DOMAIN cache |->
                        IF cache[i].key = key THEN entry ELSE cache[i]]
    IN  IF Len(put) > max_cache THEN SubSeq(put, 51, Len(put)) ELSE put

\* cache_results without its size limit
cache_results_unbounded(cache, key, results) ==
    LET entry == [key |-> key, results |-> results]
    IN  IF CacheIndex(cache, key) = {} THEN Append(cache, entry)
        ELSE [i \in DOMAIN cache |->
                 IF cache[i].key = key THEN entry ELSE cache[i]]

\* SearchModel.cache_results(cache_key, results): a dict keeps the position
\* of a key it already holds; above max_cache entries all but the newest
\* cache_keep are deleted
cache_results(cache, key, results) ==
    LET entry == [key |-> key, results |-> results]
        put == IF CacheIndex(cache, key) = {} THEN Append(cache, entry)
               ELSE [i \in DOMAIN cache |->
                        IF cache[i].key = key THEN entry ELSE cache[i]]
    IN  IF Len(put) > max_cache
        THEN SubSeq(put, Len(put) - cache_keep + 1, Len(put))
        ELSE put

\* _update_search_history putting the entry at the end of the list and
\* popping the last one on overflow
update_search_history_at_end(history, params, results_count, now) ==
    LET entry == [params |-> params, timestamp |-> now,
                  results_count |-> results_count]
        put == Append(history, entry)
    IN  IF Len(put) > max_history THEN SubSeq(put, 1, Len(put) - 1) ELSE put

\* SearchModel._update_search_history(search_params)
update_search_history(history, params, results_count, now) ==
    LET entry == [params |-> params, timestamp |-> now,
                  results_count |-> results_count]
        put == <<entry>> \o history
    IN  IF Len(put) > max_history THEN SubSeq(put, 1, Len(put) - 1) ELSE put

\* the end of the slice [:10]
Min10(n) == IF n < 10 THEN n ELSE 10

RECURSIVE HistoryMatches(_, _)
\* the first loop of get_search_suggestions
HistoryMatches(history, partial_text) ==
    IF history = <<>> THEN <<>>
    ELSE LET text == ParamText(Head(history).params)
             rest == HistoryMatches(Tail(history), partial_text)
         IN  IF Contains(lower(text), lower(partial_text))
             THEN <<text>> \o rest ELSE rest

RECURSIVE ColumnMatches(_, _)
\* the second loop of get_search_suggestions, over the object columns
ColumnMatches(columns, partial_text) ==
    IF columns = <<>> THEN <<>>
    ELSE LET column_values ==
                 [i \in DOMAIN metadata_df |->
                     astype_str(metadata_df[i], Head(columns))]
             matches ==
                 SelectSeq(column_values,
                     LAMBDA v : re_search(lower(partial_text), lower(v)))
         IN  Unique(matches, {}) \o ColumnMatches(Tail(columns), partial_text)

\* get_search_suggestions collecting the column values before the history
\* and returning the list as collected
get_search_suggestions_unordered(partial_text) ==
    LET columns == ObjectColumns(metadata_df)
        suggestions == ColumnMatches(columns, partial_text)
                           \o HistoryMatches(search_history, partial_text)
    IN  IF Len(partial_text) < 2 THEN [value |-> <<>>, raised |-> FALSE]
        ELSE IF columns # <<>> /\ re_error(lower(partial_text))
            THEN [value |-> <<>>, raised |-> TRUE]
        ELSE [value |-> SubSeq(suggestions, 1, Min10(Len(suggestions))),
              raised |-> FALSE]

\* SearchModel.get_search_suggestions(partial_text); it has no handler, the
\* re.error of str.contains leaves the call
get_search_suggestions(partial_text) ==
    LET columns == ObjectColumns(metadata_df)
        suggestions == Unique(HistoryMatches(search_history, partial_text)
                                  \o ColumnMatches(columns, partial_text), {})
    IN  IF Len(partial_text) < 2 THEN [value |-> <<>>, raised |-> FALSE]
        ELSE IF columns # <<>> /\ re_error(lower(partial_text))
            THEN [value |-> <<>>, raised |-> TRUE]
        ELSE [value |-> SubSeq(suggestions, 1, Min10(Len(suggestions))),
              raised |-> FALSE]

\* ------------------------------------------------- the search specification
\* the scenario of the specification: three Electrical and two Civil records
ScenarioFrame ==
    << [file_path |-> W1, department |-> Electrical],
       [file_path |-> W2, department |-> Civil],
       [file_path |-> W3, department |-> Electrical],
       [file_path |-> W4, department |-> Civil],
       [file_path |-> W5, department |-> Electrical] >>

\* a sheet with an unclassified record and a record whose cell is empty
MixedFrame ==
    << [file_path |-> W1, department |-> Electrical],
       [file_path |-> W2, department |-> Blank],
       [file_path |-> W3],
       [file_path |-> W4, department |-> Civil] >>

SearchFrames == { <<>>, ScenarioFrame, MixedFrame }

\* the criteria dicts handed to search_metadata
SearchTerms ==
    { <<>>,
      << Criterion("department", FALSE, <<Electrical>>) >>,
      << Criterion("department", FALSE, << <<"e", "l">> >>) >>,
      << Criterion("department", FALSE, << <<"E", ".">> >>) >>,
      << Criterion("department", FALSE, << <<"(">> >>) >>,
      << Criterion("department", FALSE, <<Blank>>) >>,
      << Criterion("department", TRUE, <<Electrical>>) >>,
      << Criterion("department", TRUE, <<Electrical, Civil>>) >>,
      << Criterion("department", TRUE, <<>>) >>,
      << Criterion("department", FALSE, <<Electrical>>),
         Criterion("file_path", FALSE, << <<"a">> >>) >>,
      << Criterion("file_size", FALSE, << <<"a">> >>) >>,
      << Criterion("status", FALSE, << <<"A">> >>) >>,
      << Criterion("department", FALSE, <<Electrical>>),
         Criterion("status", FALSE, << <<"A">> >>) >> }

\* the params dicts handed to execute_search
SearchParams ==
    { [text |-> <<>>, filters |-> <<>>],
      [text |-> <<"e", "l">>,
       filters |-> << Criterion("department", FALSE, <<Electrical>>) >>,
       sort_by |-> "file_path", sort_order |-> Desc],
      [text |-> <<>>,
       filters |-> << Criterion("department", FALSE, <<All>>) >>,
       sort_by |-> "department"],
      [text |-> <<>>,
       filters |-> << Criterion("status", FALSE, << <<"A">> >>) >>],
      [text |-> <<"a", "(">>, filters |-> <<>>],
      [text |-> <<"n", "a">>, filters |-> <<>>],
      [text |-> <<>>] }

\* the texts handed to get_search_suggestions
PartialTexts ==
    { <<"e">>, <<"e", "l">>, <<"n", "a">>, <<"a", "(">>, <<"(", "e">> }

\* the fields handed to get_unique_values
UniqueFields == {"department", "file_size", "status"}

\* SearchModel.__init__ over a store that holds one of the frames (an empty
\* string is in a frame after add_files_basic_metadata, an empty cell after
\* a load)
SearchInit ==
    /\ read_only_paths = set_protected_paths(ProtectedConfig)
    /\ metadata_df \in SearchFrames
    /\ metadata_cache = EmptyMap
    /\ excel_file = FileOf(metadata_df)
    /\ backups = EmptyMap
    /\ clock = T0
    /\ nmut = 0
    /\ backups0 = {}
    /\ search_cache = <<>>
    /\ search_history = <<>>
    /\ delivered = {}
    /\ threads = NoThreads
    /\ ret = Call("init", <<>>, <<>>, "None", {})

StoreUnchanged ==
    UNCHANGED << read_only_paths, metadata_df, metadata_cache, excel_file,
                 backups, clock, backups0, nmut >>

SearchUnchanged ==
    UNCHANGED << search_cache, search_history, delivered, threads >>

SearchMetadataCall ==
    \E search_terms \in SearchTerms :
        LET res == search_metadata(search_terms)
        IN  /\ ret' = [op |-> "search_metadata", search_terms |-> search_terms,
                       rows |-> res.rows, log |-> res.log, raised |-> FALSE]
            /\ SearchUnchanged
            /\ StoreUnchanged

UniqueValuesCall ==
    \E field \in UniqueFields :
        /\ ret' = [op |-> "get_unique_values", field |-> field,
                   value |-> get_unique_values(field), raised |-> FALSE]
        /\ SearchUnchanged
        /\ StoreUnchanged

\* what execute_search would leave in ret if it emitted searchCompleted in a
\* finally clause, after searchError too
Executed_completing_always(params, signals, result) ==
    [op |-> "execute_search", params |-> params,
     signals |-> IF signals[Len(signals)] = "searchError"
                 THEN Append(signals, "searchCompleted") ELSE signals,
     result |-> result, raised |-> FALSE]

\* what execute_search leaves in ret: the signals it emitted, in order, and
\* the frame searchCompleted carried
Executed(params, signals, result) ==
    [op |-> "execute_search", params |-> params, signals |-> signals,
     result |-> result, raised |-> FALSE]

\* the frames searchCompleted carried, the first one per params (of the
\* params the specification hands to execute_search)
Deliver(params, result) ==
    IF \E d \in delivered : d.params = params THEN delivered
    ELSE delivered \cup { [params |-> params, result |-> result] }

\* the searches the history holds that were recorded at or after time t
RecordedSince(history, t) ==
    Cardinality({ i \in DOMAIN history : history[i].timestamp >= t })

\* execute_search if a search served from the cache were recorded in the
\* history like one that was computed
execute_search_recording_hits(params) ==
    LET hit == CacheIndex(search_cache, params)
        query == run_query(params)
    IN  /\ StoreUnchanged
        /\ UNCHANGED threads
        /\ IF hit # {}
           THEN LET cached == search_cache[CHOOSE i \in hit : TRUE].results
                IN  /\ RecordedSince(search_history, T0) < MaxSearches
                    /\ ret' = Executed(params,
                                       <<"searchStarted", "searchCompleted">>,
                                       cached)
                    /\ delivered' = Deliver(params, cached)
                    /\ search_history' =
                           update_search_history(search_history, params,
                                                 Len(cached), clock)
                    /\ UNCHANGED search_cache
           ELSE IF query.raised
           THEN /\ ret' = Executed(params, <<"searchStarted", "searchError">>,
                                   <<>>)
                /\ UNCHANGED << search_cache, search_history, delivered >>
           ELSE /\ RecordedSince(search_history, T0) < MaxSearches
                /\ \E sorted_results \in query.results :
                       /\ search_cache' =
                              cache_results(search_cache, params, sorted_results)
                       /\ search_history' =
                              update_search_history(search_history, params,
                                                    Len(sorted_results), clock)
                       /\ ret' = Executed(params,
                                          <<"searchStarted", "searchCompleted">>,
                                          sorted_results)
                       /\ delivered' = Deliver(params, sorted_results)

\* SearchModel.execute_search(search_params)
execute_search(params) ==
    LET hit == CacheIndex(search_cache, params)
        query == run_query(params)
    IN  /\ StoreUnchanged
        /\ UNCHANGED threads
        /\ IF hit # {}
           THEN LET cached == search_cache[CHOOSE i \in hit : TRUE].results
                IN  /\ ret' = Executed(params,
                                       <<"searchStarted", "searchCompleted">>,
                                       cached)
                    /\ delivered' = Deliver(params, cached)
                    /\ UNCHANGED << search_cache, search_history >>
           ELSE IF query.raised
           THEN /\ ret' = Executed(params, <<"searchStarted", "searchError">>,
                                   <<>>)
                /\ UNCHANGED << search_cache, search_history, delivered >>
           ELSE /\ RecordedSince(search_history, T0) < MaxSearches
                /\ \E sorted_results \in query.results :
                       /\ search_cache' =
                              cache_results(search_cache, params, sorted_results)
                       /\ search_history' =
                              update_search_history(search_history, params,
                                                    Len(sorted_results), clock)
                       /\ ret' = Executed(params,
                                          <<"searchStarted", "searchCompleted">>,
                                          sorted_results)
                       /\ delivered' = Deliver(params, sorted_results)

ExecuteCall == \E params \in SearchParams : execute_search(params)

SuggestionsCall ==
    \E partial_text \in PartialTexts :
        LET res == get_search_suggestions(partial_text)
        IN  /\ ret' = [op |-> "get_search_suggestions",
                       partial_text |-> partial_text, value |-> res.value,
                       raised |-> res.raised]
            /\ SearchUnchanged
            /\ StoreUnchanged

\* SearchModel.clear_search_cache()
clear_search_cache ==
    /\ search_cache' = <<>>
    /\ ret' = [op |-> "clear_search_cache", raised |-> FALSE]
    /\ UNCHANGED << search_history, delivered, threads >>
    /\ StoreUnchanged

SearchNext ==
    \/ SearchMetadataCall
    \/ UniqueValuesCall
    \/ ExecuteCall
    \/ SuggestionsCall
    \/ clear_search_cache

SearchSpec == SearchInit /\ [][SearchNext]_vars

\* ------------------------------------------------- popular searches
RECURSIVE CountLoop_last_seen(_, _)
\* the loop of get_popular_searches if it set last_used at every entry of
\* the text it meets, the oldest one last
CountLoop_last_seen(history, search_counts) ==
    IF history = <<>> THEN search_counts
    ELSE LET search == Head(history)
             search_text == ParamText(search.params)
             known == { i \in DOMAIN search_counts :
                          search_counts[i].text = search_text }
         IN  IF search_text = <<>>
                 THEN CountLoop_last_seen(Tail(history), search_counts)
             ELSE IF known # {}
                 THEN CountLoop_last_seen(Tail(history),
                          [i \in DOMAIN search_counts |->
                              IF i \in known
                              THEN [search_counts[i] EXCEPT
                                        !.count = @ + 1,
                                        !.last_used = search.timestamp]
                              ELSE search_counts[i]])
             ELSE CountLoop_last_seen(Tail(history),
                      Append(search_counts,
                             [text |-> search_text, count |-> 1,
                              last_used |-> search.timestamp]))

RECURSIVE CountLoop(_, _)
\* the loop of get_popular_searches over the history, most recent first:
\* search_counts in insertion order; last_used is set when the text is first
\* met and never updated
CountLoop(history, search_counts) ==
    IF history = <<>> THEN search_counts
    ELSE LET search == Head(history)
             search_text == ParamText(search.params)
             known == { i \in DOMAIN search_counts :
                          search_counts[i].text = search_text }
         IN  IF search_text = <<>> THEN CountLoop(Tail(history), search_counts)
             ELSE IF known # {}
                 THEN CountLoop(Tail(history),
                          [i \in DOMAIN search_counts |->
                              IF i \in known
                              THEN [search_counts[i] EXCEPT !.count = @ + 1]
                              ELSE search_counts[i]])
             ELSE CountLoop(Tail(history),
                      Append(search_counts,
                             [text |-> search_text, count |-> 1,
                              last_used |-> search.timestamp]))

\* (x['count'], x['last_used']) < (y['count'], y['last_used'])
KeyLess(x, y) ==
    \/ x.count < y.count
    \/ x.count = y.count /\ x.last_used < y.last_used

RECURSIVE InsertDescending(_, _)
\* x put behind every item whose key is not smaller than its own
InsertDescending(items, x) ==
    IF items = <<>> THEN <<x>>
    ELSE IF KeyLess(Head(items), x) THEN <<x>> \o items
    ELSE <<Head(items)>> \o InsertDescending(Tail(items), x)

RECURSIVE SortedDescending(_, _)
\* sorted(items, key=(count, last_used), reverse=True): a stable sort, items
\* with equal keys stay in their order
SortedDescending(items, done) ==
    IF items = <<>> THEN done
    ELSE SortedDescending(Tail(items), InsertDescending(done, Head(items)))

\* SearchModel.get_popular_searches()
get_popular_searches ==
    LET popular_searches ==
            SortedDescending(CountLoop(search_history, <<>>), <<>>)
    IN  SubSeq(popular_searches, 1,
               IF Len(popular_searches) < 5 THEN Len(popular_searches) ELSE 5)

\* ------------------------------------------------ the session specification
\* the searches served before the first state of SessionSpec: as many as
\* fill the cache
PriorSearches == max_cache

\* the characters that tell the texts of the earlier searches apart
PriorLetters == <<"a", "b", "c", "d", "e", "i", "l", "n", "r">>

\* the text of the i-th earlier search: none, or 'el' and a letter; three
\* searches in a row share a text
PriorText(i) ==
    LET k == (i \div 3) % (Len(PriorLetters) + 1)
    IN  IF k = 0 THEN <<>> ELSE <<"e", "l", PriorLetters[k]>>

\* the params of the i-th earlier search; the date range makes each a query
\* of its own
PriorParams(i) ==
    [text |-> PriorText(i), filters |-> <<>>, date_range |-> <<i, i>>]

\* when the i-th earlier search ran: ten a second, the last ones in the
\* second before T0
PriorTime(i) == T0 - 1 - ((PriorSearches - i) \div 10)

\* the frame the i-th earlier search delivered (none of them sorts, so
\* there is one)
PriorResults(i) == CHOOSE r \in run_query(PriorParams(i)).results : TRUE

\* SearchModel.search_cache after the earlier searches: each was a cache
\* miss and cache_results appended it; the cache never exceeded max_cache
PriorCache ==
    [i \in 1..PriorSearches |->
        [key |-> PriorParams(i), results |-> PriorResults(i)]]

\* SearchModel.search_history after the earlier searches: the last
\* max_history of them, _update_search_history put each at the front
PriorHistory ==
    [j \in 1..max_history |->
        LET i == PriorSearches + 1 - j
        IN  [params |-> PriorParams(i), timestamp |-> PriorTime(i),
             results_count |-> Len(PriorResults(i))]]

\* the params dicts handed to execute_search in the session
SessionParams ==
    { [text |-> <<"e", "l">>, filters |-> <<>>],
      [text |-> <<>>,
       filters |-> << Criterion("department", FALSE, <<Civil>>) >>,
       sort_by |-> "file_path", sort_order |-> Desc],
      [text |-> <<"(", "e", ")">>, filters |-> <<>>],
      PriorParams(1),
      PriorParams(PriorSearches - 1) }

\* the earlier searches the session asks again
Repeated == { i \in 1..PriorSearches : PriorParams(i) \in SessionParams }

\* the record set of the session: departments El, Ci and Tel
SessionFrame ==
    << [file_path |-> W1, department |-> Electrical],
       [file_path |-> W2, department |-> Civil],
       [file_path |-> W3, department |-> Electrical],
       [file_path |-> W4, department |-> Civil],
       [file_path |-> W5, department |-> <<"T", "e", "l">>] >>

\* SearchModel in the middle of a session over a loaded record set: its
\* cache is full
SessionInit ==
    /\ read_only_paths = set_protected_paths(ProtectedConfig)
    /\ metadata_df = read_excel(SessionFrame)
    /\ metadata_cache = EmptyMap
    /\ excel_file = FileOf(metadata_df)
    /\ backups = EmptyMap
    /\ clock = T0
    /\ nmut = 0
    /\ backups0 = {}
    /\ search_cache = PriorCache
    /\ search_history = PriorHistory
    /\ delivered = { [params |-> PriorParams(i), result |-> PriorResults(i)] :
                        i \in Repeated }
    /\ threads = NoThreads
    /\ ret = Call("init", <<>>, <<>>, "None", {})

SessionExecuteCall == \E params \in SessionParams : execute_search(params)

PopularCall ==
    /\ ret' = [op |-> "get_popular_searches", value |-> get_popular_searches,
               raised |-> FALSE]
    /\ SearchUnchanged
    /\ StoreUnchanged

SessionNext ==
    \/ Tick
    \/ SessionExecuteCall
    \/ SuggestionsCall
    \/ PopularCall
    \/ clear_search_cache

SessionSpec == SessionInit /\ [][SessionNext]_vars

\* ------------------------------------------------- the reload specification
\* MetadataModel.setup_model when the application starts again on the same
\* excel_path (in a directory of its own): a new object, so an empty cache;
\* the spreadsheet is read when it exists; when it does not, or read_excel
\* raises on an incomplete file, create_new_database starts from an empty
\* frame and saves it
setup_model(save_io) ==
    LET readable == excel_file.exists /\ excel_file.sheet # Torn
        saved == save_database(<<>>, save_io)
    IN  /\ metadata_df' = IF readable THEN read_excel(excel_file.sheet)
                          ELSE <<>>
        /\ excel_file' = IF readable THEN excel_file ELSE saved.file
        /\ metadata_cache' = EmptyMap
        /\ ret' = Call("setup_model", <<>>, <<>>, "None",
                       IF readable THEN {}
                       ELSE IF excel_file.exists
                           THEN {"Error initializing metadata model"}
                                    \cup saved.log
                       ELSE saved.log)
        /\ UNCHANGED << read_only_paths, backups, clock, backups0, nmut,
                        search_cache, search_history, delivered, threads >>

ReloadCall == \E save_io \in {"ok", "torn"} : setup_model(save_io)

\* a call of MetadataModel.save_database()
SaveCall ==
    \E save_io \in {"ok", "torn"} :
        LET saved == save_database(metadata_df, save_io)
        IN  /\ excel_file' = saved.file
            /\ ret' = Call("save_database", <<>>, <<>>, saved.value, saved.log)
            /\ UNCHANGED << read_only_paths, metadata_df, metadata_cache,
                            backups, clock, backups0, nmut,
                            search_cache, search_history, delivered, threads >>

ReloadNext ==
    \/ AddCall
    \/ UpdateCall
    \/ SaveCall
    \/ ReloadCall

ReloadSpec == Init /\ [][ReloadNext]_vars

\* ---------------------------------------------- the coherence specification
\* the application as the main window wires it: SearchModel reads the frame
\* of the store that add_files_basic_metadata and update_metadata change
CoherenceNext ==
    \/ AddCall
    \/ UpdateCall
    \/ ExecuteCall

CoherenceSpec == Init /\ [][CoherenceNext]_vars

\* ------------------------------------------------- the manager specification
\* MetadataManager.add_files_basic_metadata(file_paths), the store the main
\* window constructs: backup_current_metadata writes a backup whether or not
\* the spreadsheet exists; the loop is the loop of MetadataModel; the class
\* defines no save_database, so the last statement raises AttributeError,
\* the handler logs it and the call returns False with nothing saved
manager_add_files_basic_metadata(file_paths, stat, backup_io) ==
    LET loop == AddLoop(metadata_df, file_paths, stat, clock)
        sheet == IF backup_io = "torn" THEN Torn ELSE to_excel(metadata_df)
        written == SetKey(backups, strftime(clock), sheet)
    IN  /\ nmut < MaxOps
        /\ backups' = IF backup_io = "denied" THEN backups
                      ELSE IF backup_io = "torn" THEN written
                      ELSE cleanup_old_backups(written)
        /\ metadata_df' = loop.df
        /\ ret' = [op |-> "manager_add", path |-> <<>>, paths |-> file_paths,
                   value |-> "False",
                   log |-> (IF backup_io = "ok" THEN {}
                            ELSE {"Error creating metadata backup"})
                               \cup {"Error adding basic metadata"},
                   raised |-> FALSE, stat |-> stat, backup_io |-> backup_io]
        /\ nmut' = nmut + 1
        /\ UNCHANGED << read_only_paths, metadata_cache, excel_file, clock,
                        backups0, search_cache, search_history, delivered,
                        threads >>

ManagerAddCall ==
    \E file_paths \in Batches, stat \in StatMaps,
       backup_io \in WriteOutcomes :
        manager_add_files_basic_metadata(file_paths, stat, backup_io)

ManagerNext ==
    \/ Tick
    \/ ManagerAddCall

ManagerSpec == Init /\ [][ManagerNext]_vars

\* ------------------------------------------------- the thread specification
\* MetadataModel has no lock: a call made from a second thread runs its
\* statements between those of the first.  A statement that assigns
\* self.metadata_df reads the attribute, builds the new frame and stores it;
\* another thread may run between the read and the store.  Each thread
\* makes one call; pc is the statement it is at, df the frame it has built
\* and not yet stored.
ThreadIds == {1, 2}

\* a call of update_metadata(file_path, metadata) at its first statement
UpdateOf(file_path, metadata) ==
    [op |-> "update", file_path |-> file_path, metadata |-> metadata,
     pc |-> "start", df |-> <<>>, value |-> "None"]

\* a call of add_files_basic_metadata([file_path]) at its first statement
AddOf(file_path) ==
    [op |-> "add", file_path |-> file_path, metadata |-> NoDict,
     pc |-> "start", df |-> <<>>, value |-> "None"]

\* the calls the two threads make
ThreadCalls ==
    { <<UpdateOf(W1, [file_path |-> W1, department |-> Electrical]),
        UpdateOf(W2, [file_path |-> W2, department |-> Civil])>>,
      <<UpdateOf(W1, [file_path |-> W1, department |-> Electrical]),
        AddOf(W2)>>,
      <<AddOf(W1), AddOf(W2)>>,
      <<UpdateOf(R1, [file_path |-> R1, department |-> Civil]), AddOf(W2)>> }

\* two threads about to call a store that loaded an empty spreadsheet or
\* the one an earlier run left
ThreadInit ==
    /\ read_only_paths = set_protected_paths(ProtectedConfig)
    /\ metadata_df \in { <<>>, read_excel(PriorSheet) }
    /\ metadata_cache = EmptyMap
    /\ excel_file = FileOf(metadata_df)
    /\ backups = EmptyMap
    /\ clock = T0
    /\ nmut = 0
    /\ backups0 = {}
    /\ search_cache = <<>>
    /\ search_history = <<>>
    /\ delivered = {}
    /\ threads \in ThreadCalls
    /\ ret = Call("init", <<>>, <<>>, "None", {})

\* thread t goes on to its next statement
Goto(t, pc) == threads' = [threads EXCEPT ![t].pc = pc]

\* what no statement of a call touches
ThreadUnchanged ==
    UNCHANGED << read_only_paths, clock, backups0, nmut, search_cache,
                 search_history, delivered >>

\* the first statement: update_metadata asks the safety gate and stamps the
\* dict; add_files_basic_metadata backs up and builds the dict of the file
Start(t) ==
    LET call == threads[t]
    IN  /\ call.pc = "start"
        /\ ThreadUnchanged
        /\ UNCHANGED << metadata_df, metadata_cache, excel_file >>
        /\ IF call.op = "update" /\ is_protected_path(call.file_path)
           THEN /\ threads' = [threads EXCEPT ![t].pc = "done",
                                              ![t].value = "False"]
                /\ ret' = Call("update", call.file_path, <<>>, "False",
                               {"Attempted to update protected file metadata"})
                /\ UNCHANGED backups
           ELSE IF call.op = "update"
           THEN /\ threads' = [threads EXCEPT
                                  ![t].pc = "filter",
                                  ![t].metadata =
                                      SetKey(call.metadata, "last_modified",
                                             clock)]
                /\ UNCHANGED << backups, ret >>
           ELSE /\ backups' = backup_current_metadata(metadata_df, "ok")
                /\ threads' = [threads EXCEPT
                                  ![t].pc = "filter",
                                  ![t].metadata =
                                      BasicMetadata(call.file_path, Small,
                                                    clock)]
                /\ UNCHANGED ret

\* the right-hand side of "Remove existing entry": the frame without the
\* rows of the path, built from the frame the attribute holds now
Filter(t) ==
    /\ threads[t].pc = "filter"
    /\ threads' = [threads EXCEPT
                      ![t].pc = "store_filtered",
                      ![t].df = RowsNotFor(metadata_df, threads[t].file_path)]
    /\ ThreadUnchanged
    /\ UNCHANGED << metadata_df, metadata_cache, excel_file, backups, ret >>

\* the right-hand side of "Add new entry": pd.concat of the frame the
\* attribute holds now and the new row
Concat(t) ==
    /\ threads[t].pc = "concat"
    /\ threads' = [threads EXCEPT
                      ![t].pc = "store_concat",
                      ![t].df = Append(metadata_df, threads[t].metadata)]
    /\ ThreadUnchanged
    /\ UNCHANGED << metadata_df, metadata_cache, excel_file, backups, ret >>

\* self.metadata_df = <the frame built>
Store(t) ==
    /\ threads[t].pc \in {"store_filtered", "store_concat"}
    /\ metadata_df' = threads[t].df
    /\ Goto(t, IF threads[t].pc = "store_filtered" THEN "concat"
               ELSE IF threads[t].op = "update" THEN "cache"
               ELSE "save")
    /\ ThreadUnchanged
    /\ UNCHANGED << metadata_cache, excel_file, backups, ret >>

\* update_metadata: the cache entry, then backup_current_metadata
CacheAndBackup(t) ==
    /\ threads[t].pc = "cache"
    /\ metadata_cache' = SetKey(metadata_cache, threads[t].file_path,
                                threads[t].metadata)
    /\ backups' = backup_current_metadata(metadata_df, "ok")
    /\ Goto(t, "save")
    /\ ThreadUnchanged
    /\ UNCHANGED << metadata_df, excel_file, ret >>

\* save_database: to_excel is handed the frame the attribute holds now and
\* opens the spreadsheet for writing, which empties it
Open(t) ==
    /\ threads[t].pc = "save"
    /\ excel_file' = TornFile
    /\ threads' = [threads EXCEPT ![t].pc = "write", ![t].df = metadata_df]
    /\ ThreadUnchanged
    /\ UNCHANGED << metadata_df, metadata_cache, backups, ret >>

\* to_excel writes the sheet and closes the file; the call returns True
Write(t) ==
    /\ threads[t].pc = "write"
    /\ excel_file' = FileOf(threads[t].df)
    /\ threads' = [threads EXCEPT ![t].pc = "done", ![t].value = "True"]
    /\ ret' = Call(threads[t].op, threads[t].file_path, <<>>, "True", {})
    /\ ThreadUnchanged
    /\ UNCHANGED << metadata_df, metadata_cache, backups >>

ThreadNext ==
    \E t \in ThreadIds :
        \/ Start(t)
        \/ Filter(t)
        \/ Concat(t)
        \/ Store(t)
        \/ CacheAndBackup(t)
        \/ Open(t)
        \/ Write(t)

ThreadSpec == ThreadInit /\ [][ThreadNext]_vars

\* ------------------------------------------------------------------ claims
Min(a, b) == IF a < b THEN a ELSE b

Range(s) == { s[i] : i \in DOMAIN s }

\* the number of rows of the frame whose file_path is p
RowCount(p) == Len(RowsFor(metadata_df, p))

\* C1: the record set holds at most one row per file_path, and exactly one
\* row for every path a call successfully added or updated
C1_OneRecordPerPath ==
    /\ \A p \in StorePaths : RowCount(p) <= 1
    /\ (ret.op = "update" /\ ret.value = "True") => RowCount(ret.path) = 1
    /\ (ret.op = "add" /\ ret.value = "True") =>
           \A p \in Range(ret.paths) : RowCount(p) = 1

\* C2: update_metadata on a protected path returns False and leaves the
\* record set, the cache, the spreadsheet and the backups as they were
C2_ProtectedUpdateIsNoOp ==
    [][ (ret' # ret /\ ret'.op = "update" /\ is_protected_path(ret'.path))
            => /\ ret'.value = "False"
               /\ UNCHANGED << metadata_df, metadata_cache, excel_file, backups >>
      ]_vars

\* a protected update was refused
C2_Witness ==
    /\ ret.op = "update"
    /\ is_protected_path(ret.path)
    /\ ret.value = "False"

\* C3: add_files_basic_metadata refuses a protected path: it reports failure
\* and the record set never holds a row for a protected path
C3_AddRefusesProtected ==
    /\ \A i \in DOMAIN metadata_df :
           Has(metadata_df[i], "file_path")
               => ~is_protected_path(metadata_df[i].file_path)
    /\ (ret.op = "add" /\ \E p \in Range(ret.paths) : is_protected_path(p))
           => ret.value = "False"

\* this step is a mutating call that wrote its backup file
WroteBackup ==
    /\ nmut' = nmut + 1
    /\ excel_file.exists
    /\ "Error creating metadata backup" \notin ret'.log

\* the backup a mutating call writes holds the frame as it was before the call
BackupIsPreMutation ==
    /\ strftime(clock) \in DOMAIN backups'
    /\ backups'[strftime(clock)] = to_excel(metadata_df)

\* C4: the backup file written by update_metadata or add_files_basic_metadata
\* holds the record set as it was before the call changed it
C4_BackupHoldsPreMutationSnapshot ==
    [][ WroteBackup => BackupIsPreMutation ]_vars

\* C5: after a successful add_files_basic_metadata, get_metadata(p) returns
\* the record that call built for p, for every path p of the batch
C5_GetReturnsAddedRecord ==
    [][ \A file_paths \in Batches, stat \in StatMaps, io \in IOOutcomes :
            (add_files_basic_metadata(file_paths, stat, io[1], io[2])
             /\ ret'.value = "True")
            => \A p \in Range(file_paths) :
                   GetResult(metadata_cache', metadata_df', p)
                       = [value |-> "Record",
                          record |-> BasicMetadata(p, stat[p], clock)]
      ]_vars

\* C6: get_metadata(p) returns the same whether or not clear_cache() ran
\* just before it
C6_CacheNeverChangesGet ==
    \A p \in StorePaths :
        GetResult(metadata_cache, metadata_df, p)
            = GetResult(EmptyMap, metadata_df, p)

\* C7: add_files_basic_metadata returns False whenever its backup write or
\* its save fails, and True only when both succeeded
C7_AddFailsWhenBackupOrSaveFails ==
    (/\ ret.op = "add"
     /\ \/ "Error creating metadata backup" \in ret.log
        \/ "Error saving metadata" \in ret.log)
    => ret.value = "False"

\* C8: a path of the batch that is not on the file system is skipped: the
\* other paths are added, the set is saved and the call returns True
C8_MissingPathIsSkipped ==
    [][ \A file_paths \in Batches, stat \in StatMaps :
            (add_files_basic_metadata(file_paths, stat, "ok", "ok")
             /\ \E p \in Range(file_paths) : ~stat[p].exists)
            => /\ ret'.value = "True"
               /\ \A p \in Range(file_paths) :
                      stat[p].exists =>
                          RowsFor(metadata_df', p)
                              = << BasicMetadata(p, stat[p], clock) >>
               /\ excel_file' = FileOf(metadata_df')
      ]_vars

\* the n files of a directory listing with the latest timestamps
MostRecent(names, n) ==
    { x \in names :
        Cardinality({ y \in names : TimeOf(y) > TimeOf(x) }) < n }

\* C9: after every mutating call the backup directory holds at most
\* max_backups files, and a call that writes a backup leaves exactly the
\* max_backups most recent of the files there and the one it wrote
C9_BackupRotation ==
    [][ /\ Cardinality(DOMAIN backups') <= max_backups
        /\ WroteBackup
               => DOMAIN backups'
                      = MostRecent(DOMAIN backups \cup {strftime(clock)},
                                   max_backups)
      ]_vars

\* C10: starting from an empty backup directory, k mutating calls leave
\* exactly min(k, max_backups) backup files
C10_OneBackupPerMutation ==
    backups0 = {} =>
        Cardinality(DOMAIN backups) = Min(nmut, max_backups)

\* C11: after update_metadata(p, m) returned True the record set's row for p
\* is exactly m with last_modified stamped to the time of the call,
\* get_metadata(p) returns that record, and the number of rows grew by one
\* if p had no row and is unchanged otherwise
C11_UpdateReplacesWholeRow ==
    [][ \A file_path \in StorePaths, m \in MetadataInputs, io \in IOOutcomes :
            (update_metadata(file_path, m, io[1], io[2]) /\ ret'.value = "True")
            => LET stamped == SetKey(m, "last_modified", clock)
               IN  /\ RowsFor(metadata_df', file_path) = << stamped >>
                   /\ GetResult(metadata_cache', metadata_df', file_path)
                          = [value |-> "Record", record |-> stamped]
                   /\ Len(metadata_df')
                          = Len(metadata_df)
                              + (IF RowCount(file_path) = 0 THEN 1 ELSE 0)
      ]_vars

\* C12: add_files_basic_metadata replaces the record of a path that already
\* has one and does not merge with it: once its loop has run, the record set
\* holds for every path of the batch one row, with every column set and the
\* classification cell empty, whatever an earlier update stored
C12_AddReplacesNotMerges ==
    (ret.op = "add" /\ "Error adding basic metadata" \notin ret.log)
    => \A p \in Range(ret.paths) :
           /\ RowCount(p) = 1
           /\ DOMAIN RowsFor(metadata_df, p)[1] = Columns
           /\ RowsFor(metadata_df, p)[1].department = Blank

\* a path whose record an earlier run had classified was added again
C12_Witness ==
    /\ backups0 # {}
    /\ nmut = 1
    /\ ret.op = "add"
    /\ ret.value = "True"
    /\ W1 \in Range(ret.paths)
    /\ RowsFor(metadata_df, W1)[1].department = Blank

\* the file_path values present in a frame
PathsOf(df) == { df[i].file_path : i \in { k \in DOMAIN df : Has(df[k], "file_path") } }

\* C13: no call of the store removes a record: the set of file_path values
\* present in the record set never loses a member
C13_NoRecordIsLost ==
    [][ PathsOf(metadata_df) \subseteq PathsOf(metadata_df') ]_vars

\* C14: when the save of update_metadata fails, the call returns False, the
\* record set and the cache entry of the path hold the new record, and the
\* spreadsheet file is what it was before the call
C14_FailedSaveKeepsOldFile ==
    [][ \A file_path \in StorePaths, m \in MetadataInputs, io \in IOOutcomes :
            (/\ update_metadata(file_path, m, io[1], io[2])
             /\ ~is_protected_path(file_path)
             /\ io[2] # "ok")
            => LET stamped == SetKey(m, "last_modified", clock)
               IN  /\ ret'.value = "False"
                   /\ stamped \in Range(metadata_df')
                   /\ file_path \in DOMAIN metadata_cache'
                   /\ metadata_cache'[file_path] = stamped
                   /\ excel_file' = excel_file
      ]_vars

HasPrefix(s, q) ==
    /\ Len(q) <= Len(s)
    /\ \A i \in 1..Len(q) : s[i] = q[i]

\* the normalized path starts with one of the protected prefixes
UnderProtectedPrefix(path) ==
    \E q \in read_only_paths : HasPrefix(normpath(path), q)

\* C17: the protected prefixes are kept normalized; is_protected_path(path)
\* is true iff the normalized path starts with one of them;
\* validate_operation(path, 'write') is True iff the path is not protected;
\* with no protected prefix no path is protected
C17_ProtectedIffPrefix ==
    /\ \A q \in read_only_paths : normpath(q) = q
    /\ ret.op = "is_protected_path"
           => (ret.value = "True" <=> UnderProtectedPrefix(ret.path))
    /\ (ret.op = "validate_operation" /\ ret.operation_type = OpWrite)
           => (ret.value = "True" <=> ~UnderProtectedPrefix(ret.path))
    /\ (ret.op = "is_protected_path" /\ read_only_paths = {})
           => ret.value = "False"

\* a spelling that is not normalized was classified protected
C17_Witness ==
    /\ ret.op = "is_protected_path"
    /\ ret.value = "True"
    /\ normpath(ret.path) # ret.path

\* C18: protection never restricts a read: validate_operation(path, 'read')
\* is True for every path and protected set, safe_read_operation answers
\* what os.access answers, and get_metadata returns the row of the record
\* set for a protected path as for any other
C18_ProtectionNeverRestrictsReads ==
    /\ (ret.op = "validate_operation" /\ ret.operation_type = OpRead)
           => ret.value = "True"
    /\ ret.op = "safe_read_operation" => ret.value = BoolStr(ret.access)
    /\ ret.op = "get"
           => IF RowCount(ret.path) = 0 THEN ret.value = "None"
              ELSE /\ ret.value = "Record"
                   /\ ret.path \in DOMAIN metadata_cache
                   /\ metadata_cache[ret.path] = RowsFor(metadata_df, ret.path)[1]

\* get_metadata returned the record of a protected path
C18_Witness ==
    /\ ret.op = "get"
    /\ is_protected_path(ret.path)
    /\ ret.value = "Record"

\* C15: no public operation lets an exception out: every call returns, a
\* store search that failed returns an empty frame, and execute_search
\* ends with exactly one of searchCompleted and searchError
C15_NoOperationRaises ==
    /\ ~ret.raised
    /\ (ret.op = "search_metadata" /\ ret.log # {}) => ret.rows = <<>>
    /\ ret.op = "execute_search"
           => /\ Len(ret.signals) = 2
              /\ ret.signals[1] = "searchStarted"
              /\ ret.signals[2] \in {"searchCompleted", "searchError"}

\* the row satisfies one criterion as the specification words it: membership
\* in the list, or case-insensitive containment of the value
Satisfies(r, t) ==
    /\ Has(r, t.field)
    /\ IF t.list THEN \E k \in DOMAIN t.values : t.values[k] = r[t.field]
       ELSE Contains(lower(r[t.field]), lower(t.values[1]))

\* C19: search_metadata returns exactly the rows that satisfy every
\* non-empty criterion: membership for a list, case-insensitive containment
\* for a scalar (criteria on text columns)
C19_SearchReturnsMatchingRows ==
    (/\ ret.op = "search_metadata"
     /\ \A k \in DOMAIN ret.search_terms :
            ret.search_terms[k].field \in TextColumns)
    => ret.rows =
           SelectSeq(metadata_df,
               LAMBDA r : \A k \in DOMAIN ret.search_terms :
                   Truthy(ret.search_terms[k])
                       => Satisfies(r, ret.search_terms[k]))

\* the criteria that name a column of the frame
KnownTerms(terms) == SelectSeq(terms, LAMBDA t : t.field \in Columns)

\* C20: a criterion or filter on a column the frame does not have is
\* ignored: search_metadata and execute_search give what the same query
\* without it gives, and signal no error of their own
C20_UnknownColumnIsIgnored ==
    /\ ret.op = "search_metadata"
           => LET reduced == search_metadata(KnownTerms(ret.search_terms))
              IN  ret.rows = reduced.rows /\ ret.log = reduced.log
    /\ (ret.op = "execute_search" /\ "filters" \in DOMAIN ret.params)
           => LET reduced == run_query([ret.params EXCEPT
                                           !.filters = KnownTerms(@)])
              IN  IF reduced.raised THEN ret.signals[2] = "searchError"
                  ELSE /\ ret.signals[2] = "searchCompleted"
                       /\ ret.result \in reduced.results

\* the two frames hold the same rows
SameRows(a, b) == Len(a) = Len(b) /\ Range(a) = Range(b)

\* execute_search completed and searchCompleted carried a frame
Completed == ret.op = "execute_search" /\ ret.signals[2] = "searchCompleted"

\* C21: with the record set unchanged, every frame execute_search delivers
\* for some params holds the rows of the first frame it delivered for these
\* params, whether it comes from the cache or is computed again after the
\* entry was evicted.
C21_SearchIsIdempotent ==
    Completed =>
        \A d \in delivered :
            d.params = ret.params => SameRows(d.result, ret.result)

\* C21 witness: a query of the earlier part of the session, no longer in
\* the cache, was computed again and delivered rows.
C21_Witness ==
    /\ Completed
    /\ \E i \in Repeated : ret.params = PriorParams(i)
    /\ search_history # <<>>
    /\ search_history[1].params = ret.params
    /\ search_history[1].timestamp >= T0
    /\ ret.result # <<>>

\* execute_search missed the cache in the last step: it computed the result,
\* cached it and recorded the search
Missed ==
    /\ Completed
    /\ search_history # <<>>
    /\ search_history[1].params = ret.params
    /\ search_history[1].timestamp >= T0
    /\ CacheIndex(search_cache, ret.params) # {}

\* C22: the search result cache never holds more than 100 entries.
C22_CacheHoldsAtMost100 == Len(search_cache) <= 100

\* C22 witness: a search was inserted into a cache that held 100 entries
\* and the cache was cut down.
C22_Witness ==
    /\ Missed
    /\ \A i \in 1..PriorSearches : ret.params # PriorParams(i)
    /\ Len(search_cache) < 100
    /\ \E i \in DOMAIN search_cache :
           search_cache[i].key = PriorParams(PriorSearches)

\* the step is an execute_search that wrote the cache
Inserted == ret'.op = "execute_search" /\ search_cache' # search_cache

\* the cache with the entry of the search the step executed at its end
WithNewEntry ==
    Append(search_cache, [key |-> ret'.params, results |-> ret'.result])

\* a step that serves execute_search from the cache leaves the cache, and
\* with it the age of every entry, as it is
HitKeepsAge ==
    ret'.op = "execute_search" /\ CacheIndex(search_cache, ret'.params) # {}
        => search_cache' = search_cache

\* C23 as stated: the insertion that brings the cache to 101 entries drops
\* exactly the 50 oldest entries, so that the 51 newest stay, the new one
\* among them; a cache hit does not refresh an entry's age.
C23_EvictionDropsOldest50 ==
    [][ /\ Inserted /\ Len(search_cache) = 100
            => search_cache' = SubSeq(WithNewEntry, 51, 101)
        /\ HitKeepsAge ]_vars

\* C23 amended: the insertion that brings the cache to 101 entries drops
\* all but the 50 newest entries, that is the 51 oldest; the new entry
\* stays; a cache hit does not refresh an entry's age.
C23_EvictionKeepsNewest50 ==
    [][ /\ Inserted /\ Len(search_cache) = 100
            => search_cache' = SubSeq(WithNewEntry, 52, 101)
        /\ HitKeepsAge ]_vars

\* C23 witness: a new search was inserted into the full cache; the 50
\* entries left are the 52nd to the 100th, in their order, and the new one.
C23_Witness ==
    /\ Missed
    /\ Len(search_cache) = 50
    /\ search_cache[50].key = ret.params
    /\ \A i \in 1..49 : search_cache[i].key = PriorParams(51 + i)

\* the history holds at most 50 entries, none older than the next one
MostRecentFirst(history) ==
    /\ Len(history) <= 50
    /\ \A i \in 1..(Len(history) - 1) :
           history[i].timestamp >= history[i + 1].timestamp

\* C24: the history is most-recent-first and holds at most 50 entries; a
\* step that executes a search past the cache puts its entry, with the
\* number of rows it delivered, in front of the entries there were, of which
\* only the oldest goes, and only when there were 50.
C24_HistoryMostRecentFirst ==
    [][ /\ MostRecentFirst(search_history')
        /\ Inserted
            => /\ search_history' # <<>>
               /\ search_history'[1] =
                      [params |-> ret'.params, timestamp |-> clock,
                       results_count |-> Len(ret'.result)]
               /\ Tail(search_history') =
                      IF Len(search_history) = 50
                      THEN SubSeq(search_history, 1, 49)
                      ELSE search_history ]_vars

\* C24 witness: a search that delivered rows was recorded in a history of
\* 50 entries, whose oldest entry went.
C24_Witness ==
    /\ Missed
    /\ ret.result # <<>>
    /\ Len(search_history) = 50
    /\ search_history[1].results_count = Len(ret.result)
    /\ search_history[50].params = PriorParams(PriorSearches - 48)

\* the texts of the history that contain the partial text, whatever the case
MatchingTexts(partial_text) ==
    { ParamText(search_history[i].params) : i \in
        { j \in DOMAIN search_history :
            Contains(lower(ParamText(search_history[j].params)),
                     lower(partial_text)) } }

\* C25: get_search_suggestions with a text of at least 2 characters returns
\* every text of the history that contains it case-insensitively.
C25_HistoryMatchesAreSuggested ==
    ret.op = "get_search_suggestions" /\ Len(ret.partial_text) >= 2
        => MatchingTexts(ret.partial_text) \subseteq Range(ret.value)

\* C26: get_search_suggestions returns nothing for a text shorter than 2
\* characters; otherwise it returns at most 10 texts, no text twice, and
\* every text that matches in the history stands before every text that
\* comes from the columns alone.
C26_SuggestionsAreCappedAndOrdered ==
    ret.op = "get_search_suggestions"
        => /\ Len(ret.partial_text) < 2 => ret.value = <<>>
           /\ Len(ret.value) <= 10
           /\ \A i, j \in DOMAIN ret.value :
                  /\ i # j => ret.value[i] # ret.value[j]
                  /\ ret.value[i] \in MatchingTexts(ret.partial_text)
                     /\ ret.value[j] \notin MatchingTexts(ret.partial_text)
                        => i < j

\* C26 witness: eleven texts match, nine of the history and two of the
\* columns; the ten returned end with one of the columns.
C26_Witness ==
    /\ ret.op = "get_search_suggestions"
    /\ Len(ret.partial_text) >= 2
    /\ Cardinality(MatchingTexts(ret.partial_text)) = 9
    /\ Len(ret.value) = 10
    /\ ret.value[10] = Electrical

\* the history entries that searched for the text
EntriesOf(text) ==
    { i \in DOMAIN search_history : ParamText(search_history[i].params) = text }

\* the time of the most recent history entry of the text
LastUsed(text) ==
    CHOOSE t \in { search_history[i].timestamp : i \in EntriesOf(text) } :
        \A i \in EntriesOf(text) : search_history[i].timestamp <= t

\* text a ranks above text b, or level with it: more entries, or as many
\* and a most recent use that is not earlier
RanksNotBelow(a, b) ==
    \/ Cardinality(EntriesOf(a)) > Cardinality(EntriesOf(b))
    \/ /\ Cardinality(EntriesOf(a)) = Cardinality(EntriesOf(b))
       /\ LastUsed(a) >= LastUsed(b)

\* the non-empty texts of the history
HistoryTexts ==
    { ParamText(search_history[i].params) : i \in DOMAIN search_history }
        \ { <<>> }

\* C27: get_popular_searches returns at most 5 distinct non-empty texts of
\* the history, each with its number of history entries and the time of its
\* most recent entry, ordered by the number of entries, descending, and
\* among equal numbers by the most recent use, the later first; no text it
\* leaves out ranks above one it returns.
C27_PopularSearchesRanking ==
    ret.op = "get_popular_searches"
        => LET popular == ret.value
               returned == { popular[i].text : i \in DOMAIN popular }
           IN  /\ Len(popular) <= 5
               /\ returned \subseteq HistoryTexts
               /\ Cardinality(returned) = Len(popular)
               /\ Cardinality(HistoryTexts) >= 5 => Len(popular) = 5
               /\ \A i \in DOMAIN popular :
                      /\ popular[i].count = Cardinality(EntriesOf(popular[i].text))
                      /\ popular[i].last_used = LastUsed(popular[i].text)
               /\ \A i, j \in DOMAIN popular :
                      i < j => RanksNotBelow(popular[i].text, popular[j].text)
               /\ \A text \in HistoryTexts \ returned :
                      \A i \in DOMAIN popular :
                          RanksNotBelow(popular[i].text, text)

\* C27 witness: five texts were returned and others left out; two of the
\* returned have as many entries and differ in their most recent use, and
\* the first of them was searched again in this session.
C27_Witness ==
    /\ ret.op = "get_popular_searches"
    /\ Len(ret.value) = 5
    /\ Cardinality(HistoryTexts) > 5
    /\ ret.value[1].last_used >= T0
    /\ \E i \in 1..4 :
           /\ ret.value[i].count = ret.value[i + 1].count
           /\ ret.value[i].last_used > ret.value[i + 1].last_used

\* both calls have returned
AllDone == \A t \in ThreadIds : threads[t].pc = "done"

\* C28: two mutating calls made from two threads run one after the other:
\* no statement of one runs while the other is between its first statement
\* and its return, and once both have returned the record set and the
\* spreadsheet hold a row for the path of every call that returned True.
C28_MutationIsSerialized ==
    /\ Cardinality({ t \in ThreadIds :
                        threads[t].pc \notin {"start", "done"} }) <= 1
    /\ AllDone =>
           \A t \in ThreadIds :
               threads[t].value = "True"
                   => /\ RowsFor(metadata_df, threads[t].file_path) # <<>>
                      /\ RowsFor(read_excel(excel_file.sheet),
                                 threads[t].file_path) # <<>>

\* C29: the spreadsheet, whenever it exists, holds a complete sheet: the
\* rows of the record set as it was before or after a save, never the
\* content of a write that did not complete.
C29_FileIsNeverPartial == excel_file.exists => excel_file.sheet # Torn

\* C30: when the spreadsheet holds the record set as save_database wrote
\* it, setup_model loads a record set with the same rows: the same paths
\* and in every row the same cells, empty ones included.
C30_SaveThenReloadRoundTrip ==
    [][ ret'.op = "setup_model" /\ excel_file = FileOf(metadata_df)
            => metadata_df' = metadata_df ]_vars

\* C31: a frame execute_search serves from its cache is a frame the text,
\* filter and sort steps compute on the record set the store holds at that
\* moment, also after add_files_basic_metadata or update_metadata changed
\* the record set.
C31_CachedResultIsCurrent ==
    [][ ret'.op = "execute_search" /\ CacheIndex(search_cache, ret'.params) # {}
            => /\ ~run_query(ret'.params).raised
               /\ ret'.result \in run_query(ret'.params).results ]_vars

\* the row holds the text, whatever the case, in one of its text columns
HoldsText(r, text) ==
    \E c \in TextColumns : Has(r, c) /\ Contains(lower(r[c]), lower(text))

\* the row equals the value of every filter that names one, "All" and the
\* empty value aside
PassesFilters(r, params) ==
    "filters" \in DOMAIN params =>
        \A k \in DOMAIN params.filters :
            LET t == params.filters[k]
            IN  t.values # <<>> /\ t.values[1] # Blank /\ (t.list \/ t.values[1] # All)
                    => /\ Has(r, t.field)
                       /\ t.field \in TextColumns
                       /\ \E j \in DOMAIN t.values : r[t.field] = t.values[j]

\* the rows of the record set the text and the filters of the params select
Selected(params) ==
    SelectSeq(metadata_df,
        LAMBDA r : /\ ParamText(params) # <<>> => HoldsText(r, ParamText(params))
                   /\ PassesFilters(r, params))

\* C32: when execute_search misses the cache it completes, and the frame it
\* delivers holds exactly the rows that contain the text, whatever the case,
\* in a text column (every row when the text is empty) and that equal the
\* value of every filter whose value is neither empty nor "All".
C32_MissReturnsSelectedRows ==
    [][ ret'.op = "execute_search" /\ CacheIndex(search_cache, ret'.params) = {}
            => /\ ret'.signals[2] = "searchCompleted"
               /\ SameRows(ret'.result, Selected(ret'.params)) ]_vars

\* where the row stands in the frame (the rows of a frame differ by path)
Pos(rows, r) == CHOOSE i \in DOMAIN rows : rows[i] = r

\* res holds the rows of rows ordered by the column, and rows with equal
\* cells in the order they have in rows
StableOrder(res, rows, by, ascending) ==
    /\ SameRows(res, rows)
    /\ \A i, j \in DOMAIN res :
           i < j => /\ MayPrecede(by, ascending, res[i], res[j])
                    /\ MayPrecede(by, ascending, res[j], res[i])
                           => Pos(rows, res[i]) < Pos(rows, res[j])

\* C33: when execute_search computes a result and sort_by names a column,
\* the frame it delivers is the filtered frame ordered by that column,
\* ascending for 'asc' and descending for 'desc', rows with equal cells in
\* their earlier order; when sort_by is absent or names no column it is the
\* filtered frame in its order, and the search completes.
C33_SortIsStable ==
    [][ ( /\ ret'.op = "execute_search"
          /\ CacheIndex(search_cache, ret'.params) = {}
          /\ "filters" \in DOMAIN ret'.params
          /\ ~build_search_query(ret'.params).raised
          /\ ~apply_filters(build_search_query(ret'.params).rows,
                            ret'.params.filters).raised )
            => LET params == ret'.params
                   rows == apply_filters(build_search_query(params).rows,
                                         params.filters).rows
                   sort_order == IF "sort_order" \in DOMAIN params
                                 THEN params.sort_order ELSE Asc
               IN  /\ ret'.signals[2] = "searchCompleted"
                   /\ IF "sort_by" \in DOMAIN params /\ params.sort_by \in Columns
                      THEN /\ sort_order \in {Asc, Desc}
                           /\ StableOrder(ret'.result, rows, params.sort_by,
                                          sort_order = Asc)
                      ELSE ret'.result = rows ]_vars

\* the entries of the history that record a search with these params
Recorded(history, params) ==
    Cardinality({ i \in DOMAIN history : history[i].params = params })

\* C34: an execute_search served from the cache delivers the cached frame
\* and leaves cache and history as they are; one that computes its result
\* puts one entry in the cache and one entry in the history; no other step
\* adds to the history, so the history holds one entry per computed search.
C34_HitLeavesCacheAndHistory ==
    [][ /\ ( ret'.op = "execute_search"
             /\ CacheIndex(search_cache, ret'.params) # {} )
            => /\ search_cache' = search_cache
               /\ search_history' = search_history
               /\ ret'.signals = <<"searchStarted", "searchCompleted">>
               /\ \E i \in DOMAIN search_cache :
                      /\ search_cache[i].key = ret'.params
                      /\ search_cache[i].results = ret'.result
        /\ ( ret'.op = "execute_search"
             /\ CacheIndex(search_cache, ret'.params) = {}
             /\ ret'.signals[2] = "searchCompleted" )
            => /\ Cardinality(CacheIndex(search_cache', ret'.params)) = 1
               /\ Len(search_history') = Min(Len(search_history) + 1, 50)
               /\ search_history'[1].params = ret'.params
               /\ Recorded(search_history', ret'.params) =
                      1 + Recorded(SubSeq(search_history, 1,
                                          Min(Len(search_history), 49)),
                                   ret'.params)
        /\ search_history' # search_history
            => /\ ret'.op = "execute_search"
               /\ CacheIndex(search_cache, ret'.params) = {} ]_vars

\* C34 witness: after a search was computed and recorded during the
\* session, another one, still in the cache, was served from it.
C34_Witness ==
    /\ Completed
    /\ CacheIndex(search_cache, ret.params) # {}
    /\ Len(search_history) = 50
    /\ search_history[1].timestamp >= T0
    /\ search_history[1].params # ret.params
    /\ Recorded(search_history, ret.params) = 1

\* C35: every execute_search emits searchStarted first and once, then one
\* of searchCompleted and searchError and nothing more; searchCompleted
\* carries the frame the cache holds for the params; a call that ends in
\* searchError leaves cache and history as they were.
C35_OneStartOneTerminalSignal ==
    [][ ret'.op = "execute_search"
            => /\ Len(ret'.signals) = 2
               /\ ret'.signals[1] = "searchStarted"
               /\ ret'.signals[2] \in {"searchCompleted", "searchError"}
               /\ ret'.signals[2] = "searchCompleted"
                      => \E i \in DOMAIN search_cache' :
                             /\ search_cache'[i].key = ret'.params
                             /\ search_cache'[i].results = ret'.result
               /\ ret'.signals[2] = "searchError"
                      => /\ search_cache' = search_cache
                         /\ search_history' = search_history
                         /\ run_query(ret'.params).raised ]_vars

\* C35 witness: a search ended in searchError while the cache and the
\* history held an earlier search, and they still hold it.
C35_Witness ==
    /\ ret.op = "execute_search"
    /\ ret.signals = <<"searchStarted", "searchError">>
    /\ Len(search_cache) = 1
    /\ Len(search_history) = 1
    /\ search_cache[1].key = search_history[1].params
    /\ search_cache[1].key # ret.params

\* C36: when add_files_basic_metadata or update_metadata has returned True,
\* the spreadsheet holds the record set the store has in memory at that
\* moment; after such a call the two differ only when it returned False.
C36_SuccessMeansPersisted ==
    ret.op \in {"add", "update"}
        => /\ ret.value = "True" => excel_file = FileOf(metadata_df)
           /\ excel_file # FileOf(metadata_df) => ret.value = "False"

\* C36 witness: update_metadata returned True after adding a second row,
\* and the spreadsheet holds both rows.
C36_Witness ==
    /\ ret.op = "update"
    /\ ret.value = "True"
    /\ Len(metadata_df) = 2
    /\ excel_file.exists
    /\ excel_file.sheet = metadata_df

\* the file a spelling names on a POSIX host: any run of leading separators
\* is the root, empty and '.' segments drop out, '..' steps back
Resolve(path) ==
    IF StartsWith(path, <<SEP>>)
    THEN <<SEP>> \o Join(NormComps(Split(path), <<>>, 1))
    ELSE normpath(path)

\* C37: of two spellings of one path that differ in redundant separators
\* or '.' and '..' segments, is_protected_path classifies either both as
\* protected or neither.
C37_RespellingStaysProtected ==
    \A p, q \in GatePaths :
        Resolve(p) = Resolve(q) /\ is_protected_path(p) => is_protected_path(q)

\* C38: for a protected path validate_operation returns False for every
\* operation type that is_modification_operation takes as modifying, and
\* True for every other one.
C38_ModifyingOperationsAreRefused ==
    ret.op = "validate_operation" /\ is_protected_path(ret.path)
        => (ret.value = "False"
                <=> is_modification_operation(ret.operation_type))

\* C39: for a batch of paths that exist, and a backup and a save that
\* succeed, MetadataManager.add_files_basic_metadata returns what
\* MetadataModel.add_files_basic_metadata returns from the same record set,
\* leaves the same record set in memory and the spreadsheet holding it.
C39_ManagerAgreesWithModelOnAdd ==
    [][ ( /\ ret'.op = "manager_add"
          /\ ret'.backup_io = "ok"
          /\ \A k \in DOMAIN ret'.paths : ret'.stat[ret'.paths[k]].exists )
            => LET loop == AddLoop(metadata_df, ret'.paths, ret'.stat, clock)
                   saved == save_database(loop.df, "ok")
               IN  /\ ret'.value = saved.value
                   /\ metadata_df' = loop.df
                   /\ excel_file' = saved.file ]_vars

====
